---------------------------- MODULE Spec2Model ----------------------------
(***************************************************************************)
(* Receipt pipeline of monitor-precios: the photo debounce of bot.py, the  *)
(* persistence stage of worker_db.py (and the in-process save of bot.py),  *)
(* the numeric normaliser, and the extraction stage of worker_ia.py.       *)
(*                                                                         *)
(* Text is modelled as a sequence of one-character strings, so that the    *)
(* string conversions of the code (lower, replace, strip, float) are       *)
(* computed and not assumed.  Decimal numbers are integers counted in      *)
(* units of 1/10000, which holds the product of two two-decimal numbers    *)
(* exactly.                                                                *)
(***************************************************************************)
EXTENDS Integers, Sequences, FiniteSets, TLC

VARIABLES
    \* ---- bot.py: debounced intake ----
    ticket_photos,   \* context.user_data["ticket_photos"], per session
    photo_timer,     \* context.user_data["photo_timer"], per session (0: key absent)
    timers,          \* every asyncio task created by handle_photo, by creation number
    handler,         \* the update handler in flight (updates are handled one at a time)
    nPhotos,         \* photos received so far (names the next temporary file)
    submissions,     \* batches that process_ticket_photos ran through OCR + extraction
    burst,           \* history: photos of the session's current burst, in arrival order
    dropped,         \* history: photos that /cancel dropped while their timer still slept
    \* ---- line-item normalisation, applied to one raw item ----
    item,            \* the raw line item p of the extraction result
    row_db,          \* the compras row worker_db.save_ticket_to_db inserts for it
    row_bot,         \* the compras row bot.save_ticket_to_db inserts for it
    \* ---- persistence: worker_db.py, bot.save_ticket_to_db, the datastore ----
    tickets,         \* table tickets, in insertion order (the id is the position)
    compras,         \* table compras, in insertion order
    db_tasks,        \* stream db_tasks (the record id is the position)
    db_last_id,      \* worker_db's cursor last_id (0 stands for "0")
    bot_responses,   \* stream bot_responses
    today,           \* datetime.now().date()
    nBotSaves,       \* receipts the bot process has handed to its own save
    last_save,       \* history: the most recent save and the table sizes before it
    \* ---- extraction: worker_ia.py ----
    ia_tasks,        \* stream ia_tasks, in id order (xdel removes a record)
    ia_next_id,      \* the id the broker gives the next ia_tasks record
    ia_last_id,      \* worker_ia's cursor last_id (0 stands for "0")
    ia_pc,           \* where worker_ia is in its loop
    ia_msg,          \* the record worker_ia is handling
    ia_result,       \* resultado_llama
    ia_faults,       \* broker and file failures so far
    ia_log,          \* history: per record id, what its last handling met
    \* ---- OCR: worker_ocr.py ----
    ocr_tasks,       \* stream ocr_tasks, in id order (xdel removes a record)
    ocr_next_id,     \* the id the broker gives the next ocr_tasks record
    photo_files,     \* the photo files on disk
    ocr_pc,          \* where worker_ocr is in its loop
    ocr_msg,         \* the record worker_ocr is handling, with its locals
    ocr_faults,      \* broker failures of xadd and xdel so far
    ocr_log,         \* history: per record id, what its handling met
    \* ---- process lifetime of worker_db ----
    db_restarts,     \* how often worker_db was started again
    \* ---- db_tasks as written on the stream: the serialized records ----
    wire_stream,     \* the records of db_tasks: a text per field
    wire_sent,       \* history: what worker_ia serialized, per record
    wire_received    \* history: what worker_db obtained, per record

botVars == <<ticket_photos, photo_timer, timers, handler, nPhotos, submissions,
             burst, dropped>>

normVars == <<item, row_db, row_bot>>

dbVars == <<tickets, compras, db_tasks, db_last_id, bot_responses, today,
            nBotSaves, last_save>>

iaVars == <<ia_tasks, ia_next_id, ia_last_id, ia_pc, ia_msg, ia_result,
            ia_faults, ia_log>>

ocrVars == <<ocr_tasks, ocr_next_id, photo_files, ocr_pc, ocr_msg, ocr_faults,
             ocr_log>>

wireVars == <<wire_stream, wire_sent, wire_received>>

vars == <<botVars, normVars, dbVars, iaVars, ocrVars, db_restarts, wireVars>>

nonBotVars == <<normVars, dbVars, iaVars, ocrVars, db_restarts, wireVars>>
nonNormVars == <<botVars, dbVars, iaVars, ocrVars, db_restarts, wireVars>>
\* What the saves and the read loop of one process lifetime leave alone.
nonDbVars == <<botVars, normVars, iaVars, ocrVars, db_restarts, wireVars>>
\* worker_ia writes db_tasks and bot_responses and nothing else outside its own state.
nonIaVars == <<botVars, normVars, tickets, compras, db_last_id, today,
               nBotSaves, last_save, ocrVars, db_restarts, wireVars>>
\* worker_ocr writes ia_tasks and bot_responses and nothing else outside its
\* own state.
nonOcrVars == <<botVars, normVars, tickets, compras, db_tasks, db_last_id, today,
                nBotSaves, last_save, ia_last_id, ia_pc, ia_msg, ia_result,
                ia_faults, ia_log, db_restarts, wireVars>>

-----------------------------------------------------------------------------
(* Bounds *)

MaxPhotos == 3

\* Persistence requests in one run: db_tasks records plus saves by the bot.
MaxSaves == 2

\* Records appended to ia_tasks in one run.
MaxIaTasks == 2

\* Broker and file failures worker_ia meets in one run.
MaxIaFaults == 1

\* Serialized records appended to db_tasks in one run.
MaxWire == 2

\* Restarts of worker_db in one run.
MaxRestarts == 1

\* Records appended to ocr_tasks in one run.
MaxOcrTasks == 2

\* Failures of xadd and xdel worker_ocr meets in one run.
MaxOcrFaults == 1

-----------------------------------------------------------------------------
(* Text: Python's str operations on sequences of characters *)

UpperCase == <<"A","B","C","D","E","F","G","H","I","J","K","L","M",
               "N","O","P","Q","R","S","T","U","V","W","X","Y","Z">>
LowerCase == <<"a","b","c","d","e","f","g","h","i","j","k","l","m",
               "n","o","p","q","r","s","t","u","v","w","x","y","z">>

LowerChar(c) ==
    IF \E i \in DOMAIN UpperCase : UpperCase[i] = c
    THEN LowerCase[CHOOSE i \in DOMAIN UpperCase : UpperCase[i] = c]
    ELSE c

\* str.lower(), and SQL LOWER().
Lower(str) == [i \in DOMAIN str |-> LowerChar(str[i])]

StartsWith(str, pat) ==
    Len(pat) <= Len(str) /\ SubSeq(str, 1, Len(pat)) = pat

\* str.replace(pat, rep): every non-overlapping occurrence, left to right.
RECURSIVE Replace(_, _, _)
Replace(str, pat, rep) ==
    IF str = <<>> THEN <<>>
    ELSE IF StartsWith(str, pat)
         THEN rep \o Replace(SubSeq(str, Len(pat) + 1, Len(str)), pat, rep)
         ELSE <<Head(str)>> \o Replace(Tail(str), pat, rep)

\* str.strip().
RECURSIVE StripLeft(_)
StripLeft(str) ==
    IF str # <<>> /\ Head(str) = " " THEN StripLeft(Tail(str)) ELSE str

RECURSIVE StripRight(_)
StripRight(str) ==
    IF str # <<>> /\ str[Len(str)] = " "
    THEN StripRight(SubSeq(str, 1, Len(str) - 1)) ELSE str

Strip(str) == StripRight(StripLeft(str))

-----------------------------------------------------------------------------
(* Numbers: a float is an integer count of 1/10000 *)

Unit == 100 * 100

Digits == <<"0","1","2","3","4","5","6","7","8","9">>

IsDigit(c) == \E i \in DOMAIN Digits : Digits[i] = c

DigitValue(c) == (CHOOSE i \in DOMAIN Digits : Digits[i] = c) - 1

RECURSIVE DigitsValue(_)
DigitsValue(str) ==
    IF str = <<>> THEN 0
    ELSE DigitsValue(SubSeq(str, 1, Len(str) - 1)) * 10 + DigitValue(str[Len(str)])

AllDigits(str) == \A i \in DOMAIN str : IsDigit(str[i])

Pow10(n) == IF n <= 0 THEN 1 ELSE IF n = 1 THEN 10 ELSE IF n = 2 THEN 100
            ELSE IF n = 3 THEN 1000 ELSE 10000

\* float(str) on a plain decimal: digits, at most one point, at least one
\* digit, at most four decimals.  ok = FALSE stands for ValueError.
\* (Signs, exponents, inf and nan are outside the inputs of the model.)
ParseDecimal(str) ==
    LET dots == {i \in DOMAIN str : str[i] = "."}
        dot == IF dots = {} THEN Len(str) + 1 ELSE CHOOSE i \in dots : TRUE
        whole == SubSeq(str, 1, dot - 1)
        frac == SubSeq(str, dot + 1, Len(str))
    IN IF /\ Cardinality(dots) <= 1
          /\ AllDigits(whole) /\ AllDigits(frac)
          /\ Len(whole) + Len(frac) >= 1
          /\ Len(frac) <= 4
       THEN [ok |-> TRUE,
             v |-> DigitsValue(whole) * Unit + DigitsValue(frac) * Pow10(4 - Len(frac))]
       ELSE [ok |-> FALSE, v |-> 0]

\* a * b of two floats.
Mul(a, b) == (a * b) \div Unit

\* round(v, 2) for v >= 0: to the nearest hundredth, a tie to the even one.
Round2(v) ==
    LET r == v % 100
        low == v - r
    IN IF r < 50 THEN low
       ELSE IF r > 50 THEN low + 100
       ELSE IF (low \div 100) % 2 = 0 THEN low ELSE low + 100

-----------------------------------------------------------------------------
(* JSON values of a line item: null, a number or a string *)

Null == [type |-> "null", v |-> 0, s |-> <<>>]
Num(n) == [type |-> "num", v |-> n, s |-> <<>>]
Str(chars) == [type |-> "str", v |-> 0, s |-> chars]

\* Python truth value: None, 0 and "" are false.
Truthy(x) ==
    CASE x.type = "null" -> FALSE
      [] x.type = "num" -> x.v # 0
      [] OTHER -> x.s # <<>>

\* x or y.
OrElse(x, y) == IF Truthy(x) THEN x ELSE y

\* worker_db.parse_float (a ValueError gives 0.0).
parse_float(value) ==
    IF value.type = "null" THEN 0
    ELSE IF value.type = "num" THEN value.v
    ELSE ParseDecimal(Strip(Replace(Replace(Replace(Lower(value.s),
            <<"k","g">>, <<>>), <<"g">>, <<>>), <<",">>, <<".">>))).v

\* bot.save_ticket_to_db.limpiar_numero.
limpiar_numero(valor) ==
    IF valor.type = "num" THEN valor.v
    ELSE IF ~Truthy(valor) THEN 0
    ELSE ParseDecimal(Strip(Replace(Replace(valor.s,
            <<"€">>, <<>>), <<",">>, <<".">>))).v

\* The compras row of worker_db.save_ticket_to_db, lines 119-121.
WorkerDbRow(p) ==
    LET cantidad == parse_float(OrElse(p.cantidad, Num(1 * Unit)))
        precio_unitario == parse_float(OrElse(p.precio_unitario, Num(0)))
        total_linea == parse_float(OrElse(p.total_linea,
                                          Num(Mul(cantidad, precio_unitario))))
    IN [cantidad |-> cantidad, precio_unitario |-> precio_unitario,
        total_linea |-> total_linea]

\* process_ticket_photos, lines 124-132: a string price or total is replaced
\* by its number.
BotClean(val) ==
    IF val.type = "str"
    THEN Num(ParseDecimal(Strip(Replace(Replace(val.s,
            <<"€">>, <<>>), <<",">>, <<".">>))).v)
    ELSE val

\* process_ticket_photos, lines 123-134.
BotPrepare(p) ==
    [cantidad |-> IF Truthy(p.cantidad) THEN p.cantidad ELSE Num(1 * Unit),
     precio_unitario |-> BotClean(p.precio_unitario),
     total_linea |-> BotClean(p.total_linea)]

\* The compras row of bot.save_ticket_to_db, lines 204-211, for an item that
\* process_ticket_photos has prepared.
BotRow(p) ==
    LET q == limpiar_numero(p.cantidad)
        cantidad == IF q # 0 THEN q ELSE 1 * Unit
        precio_unitario == limpiar_numero(p.precio_unitario)
        total_linea == limpiar_numero(p.total_linea)
    IN [cantidad |-> cantidad, precio_unitario |-> precio_unitario,
        total_linea |-> IF total_linea = 0 /\ precio_unitario > 0
                        THEN Round2(Mul(cantidad, precio_unitario))
                        ELSE total_linea]

-----------------------------------------------------------------------------
(* bot.py: handle_photo, process_ticket_photos, cancel_ticket *)

Sessions == {"u1", "u2"}

PhotoIds == 1..MaxPhotos

Range(q) == {q[i] : i \in DOMAIN q}

NoTimer == [pc |-> "none", session |-> "none", photos |-> <<>>, aliased |-> FALSE]

IdleHandler == [pc |-> "idle", session |-> "none"]

\* Suspension points of a timer task at which Task.cancel() takes effect.
Suspended == {"sleep", "reply_no_photos", "reply_processing",
              "reply_no_products", "reply_result"}

\* A timer task that is neither finished, cancelled nor failed.
Live(t) == timers[t].pc \in Suspended

BotInit ==
    /\ ticket_photos = [s \in Sessions |-> <<>>]
    /\ photo_timer = [s \in Sessions |-> 0]
    /\ timers = [t \in PhotoIds |-> NoTimer]
    /\ handler = IdleHandler
    /\ nPhotos = 0
    /\ submissions = <<>>
    /\ burst = [s \in Sessions |-> <<>>]
    /\ dropped = {}

\* A task that has ended: its frame, and its reference to the list, are gone.
Ended(task, how) == [task EXCEPT !.pc = how, !.photos = <<>>, !.aliased = FALSE]

\* Mutant of CancelTimer: handle_photo without its cancel() of the pending timer.
CancelTimerSkipped(ts, t) == ts

\* photo_timer.cancel(): a suspended task gets CancelledError at its await
\* and ends there; a finished task is left as it is.
CancelTimer(ts, t) ==
    IF t # 0 /\ ts[t].pc \in Suspended
    THEN [ts EXCEPT ![t] = Ended(ts[t], "cancelled")]
    ELSE ts

\* handle_photo, lines 67-74: cancel the pending timer, then await get_file().
HandlePhotoBegin(s) ==
    /\ handler.pc = "idle"
    /\ nPhotos < MaxPhotos
    /\ handler' = [pc |-> "get_file", session |-> s]
    /\ timers' = CancelTimer(timers, photo_timer[s])
    \* a photo that arrives while the previous timer still sleeps continues the burst
    /\ burst' = [burst EXCEPT ![s] =
                    IF photo_timer[s] # 0 /\ timers[photo_timer[s]].pc = "sleep"
                    THEN @ ELSE <<>>]
    /\ UNCHANGED <<ticket_photos, photo_timer, nPhotos, submissions, dropped>>
    /\ UNCHANGED nonBotVars

\* handle_photo, lines 74-76: get_file() returned, await download_to_drive().
HandlePhotoGetFile ==
    /\ handler.pc = "get_file"
    /\ handler' = [handler EXCEPT !.pc = "download"]
    /\ UNCHANGED <<ticket_photos, photo_timer, timers, nPhotos, submissions,
                   burst, dropped>>
    /\ UNCHANGED nonBotVars

\* list.append mutates the list object: a task that holds the same object sees it.
AppendPhoto(ts, s, p) ==
    [t \in PhotoIds |->
        IF ts[t].session = s /\ ts[t].aliased
        THEN [ts[t] EXCEPT !.photos = Append(@, p)]
        ELSE ts[t]]

\* handle_photo, lines 76-79: the download returned, append the file, await the reply.
HandlePhotoAppend ==
    /\ handler.pc = "download"
    /\ LET s == handler.session
           p == nPhotos + 1
       IN /\ nPhotos' = p
          /\ ticket_photos' = [ticket_photos EXCEPT ![s] = Append(@, p)]
          /\ timers' = AppendPhoto(timers, s, p)
          /\ burst' = [burst EXCEPT ![s] = Append(@, p)]
    /\ handler' = [handler EXCEPT !.pc = "reply"]
    /\ UNCHANGED <<photo_timer, submissions, dropped>>
    /\ UNCHANGED nonBotVars

\* handle_photo, lines 79-87: the reply returned, create the timer task.
HandlePhotoTimer ==
    /\ handler.pc = "reply"
    /\ LET s == handler.session
           t == nPhotos
       IN /\ timers' = [timers EXCEPT ![t] =
                 [pc |-> "sleep", session |-> s, photos |-> <<>>, aliased |-> FALSE]]
          /\ photo_timer' = [photo_timer EXCEPT ![s] = t]
    /\ handler' = IdleHandler
    /\ UNCHANGED <<ticket_photos, nPhotos, submissions, burst, dropped>>
    /\ UNCHANGED nonBotVars

\* An assignment of a fresh list: tasks holding the old object keep its contents.
Unalias(ts, s) ==
    [t \in PhotoIds |->
        IF ts[t].session = s THEN [ts[t] EXCEPT !.aliased = FALSE] ELSE ts[t]]

\* cancel_ticket, lines 304-305: clear the sequence, await the reply.
CancelTicket(s) ==
    /\ handler.pc = "idle"
    /\ handler' = [pc |-> "cancel_reply", session |-> s]
    /\ ticket_photos' = [ticket_photos EXCEPT ![s] = <<>>]
    /\ timers' = Unalias(timers, s)
    /\ burst' = [burst EXCEPT ![s] = <<>>]
    /\ dropped' = IF photo_timer[s] # 0 /\ timers[photo_timer[s]].pc = "sleep"
                   THEN dropped \cup Range(ticket_photos[s])
                   ELSE dropped
    /\ UNCHANGED <<photo_timer, nPhotos, submissions>>
    /\ UNCHANGED nonBotVars

\* cancel_ticket, lines 305-306: the reply returned.
CancelTicketDone ==
    /\ handler.pc = "cancel_reply"
    /\ handler' = IdleHandler
    /\ UNCHANGED <<ticket_photos, photo_timer, timers, nPhotos, submissions,
                   burst, dropped>>
    /\ UNCHANGED nonBotVars

\* process_after_delay + process_ticket_photos, lines 84-96: the sleep is over,
\* read the session's list, await the first reply.
TimerExpire(t) ==
    /\ timers[t].pc = "sleep"
    /\ LET s == timers[t].session
           photos == ticket_photos[s]
       IN timers' = [timers EXCEPT ![t] =
             [pc |-> IF photos = <<>> THEN "reply_no_photos" ELSE "reply_processing",
              session |-> s, photos |-> photos, aliased |-> TRUE]]
    /\ UNCHANGED <<ticket_photos, photo_timer, handler, nPhotos, submissions,
                   burst, dropped>>
    /\ UNCHANGED nonBotVars

\* process_ticket_photos, lines 93-94: the "no photos" reply returned.
TimerNoPhotos(t) ==
    /\ timers[t].pc = "reply_no_photos"
    /\ timers' = [timers EXCEPT ![t] = Ended(@, "done")]
    /\ UNCHANGED <<ticket_photos, photo_timer, handler, nPhotos, submissions,
                   burst, dropped>>
    /\ UNCHANGED nonBotVars

\* A photo is about to be appended to the session's list: handle_photo is
\* between its cancel() and its append.
AppendPending(s) == handler.session = s /\ handler.pc \in {"get_file", "download"}

\* process_ticket_photos, lines 97-139, which run without an await: OCR of every
\* photo, extraction, save.  outcome is what the external services return:
\* "raise" (OCR or file error, or save returned None and line 139 fails),
\* "no_products" (line 118) or "saved" (stored or found duplicate).
ProcessPhotos(t, outcome) ==
    /\ timers[t].pc = "reply_processing"
    /\ LET s == timers[t].session
       IN IF outcome = "raise"
          THEN /\ timers' = [timers EXCEPT ![t] = Ended(@, "raised")]
               /\ UNCHANGED submissions
          ELSE /\ timers' = [timers EXCEPT ![t].pc =
                     IF outcome = "no_products" THEN "reply_no_products"
                                                ELSE "reply_result"]
               /\ submissions' = Append(submissions,
                     [session |-> s, photos |-> timers[t].photos, by |-> t,
                      appendPending |-> AppendPending(s),
                      dropped |-> Range(timers[t].photos) \cap dropped # {}])
    /\ UNCHANGED <<ticket_photos, photo_timer, handler, nPhotos, burst, dropped>>
    /\ UNCHANGED nonBotVars

\* process_ticket_photos, lines 120 and 152: context.user_data["ticket_photos"] = [].
ClearPhotos(tp, s) == [tp EXCEPT ![s] = <<>>]

\* process_ticket_photos, lines 119-121 and 140-152: the final reply returned,
\* clear the session's list.
ProcessDone(t) ==
    /\ timers[t].pc \in {"reply_no_products", "reply_result"}
    /\ ticket_photos' = ClearPhotos(ticket_photos, timers[t].session)
    /\ timers' = [Unalias(timers, timers[t].session) EXCEPT ![t] = Ended(@, "done")]
    /\ UNCHANGED <<photo_timer, handler, nPhotos, submissions, burst, dropped>>
    /\ UNCHANGED nonBotVars

BotNext ==
    \/ \E s \in Sessions : HandlePhotoBegin(s)
    \/ HandlePhotoGetFile
    \/ HandlePhotoAppend
    \/ HandlePhotoTimer
    \/ \E s \in Sessions : CancelTicket(s)
    \/ CancelTicketDone
    \/ \E t \in PhotoIds : TimerExpire(t)
    \/ \E t \in PhotoIds : TimerNoPhotos(t)
    \/ \E t \in PhotoIds : \E o \in {"raise", "no_products", "saved"} : ProcessPhotos(t, o)
    \/ \E t \in PhotoIds : ProcessDone(t)


-----------------------------------------------------------------------------
(* Normalisation of one raw line item by both persistence paths *)

RawQuantities ==
    { Null, Num(0), Num(2 * Unit), Str(<<"3">>), Str(<<"0",",","3"," ","K","g">>) }

RawPrices ==
    { Null, Num(0), Num(15000), Num(9900),
      Str(<<"1",",","2","0">>), Str(<<"1",",","2","0","€">>), Str(<<"a","b","c">>) }

RawTotals ==
    { Null, Num(0), Num(24000), Str(<<>>), Str(<<"0">>), Str(<<"0",",","0","0">>),
      Str(<<"2",",","4","0">>) }

RawItems ==
    [cantidad : RawQuantities, precio_unitario : RawPrices, total_linea : RawTotals]

NoRow == [cantidad |-> -1, precio_unitario |-> -1, total_linea |-> -1]

NormInit ==
    /\ item \in RawItems
    /\ row_db = NoRow
    /\ row_bot = NoRow

\* worker_db.save_ticket_to_db inserts the item.
NormWorkerDb ==
    /\ row_db = NoRow
    /\ row_db' = WorkerDbRow(item)
    /\ UNCHANGED <<item, row_bot>>
    /\ UNCHANGED nonNormVars

\* process_ticket_photos prepares the item and bot.save_ticket_to_db inserts it.
NormBot ==
    /\ row_bot = NoRow
    /\ row_bot' = BotRow(BotPrepare(item))
    /\ UNCHANGED <<item, row_db>>
    /\ UNCHANGED nonNormVars

NormNext == NormWorkerDb \/ NormBot

\* No item is being normalised.
NormIdle ==
    /\ item = [cantidad |-> Null, precio_unitario |-> Null, total_linea |-> Null]
    /\ row_db = NoRow
    /\ row_bot = NoRow

-----------------------------------------------------------------------------
(* Persistence: worker_db.save_ticket_to_db, worker_db, bot.save_ticket_to_db *)

Lidl == <<"L", "i", "d", "l">>
LIDL == <<"L", "I", "D", "L">>

\* tienda of an extraction result: one shop, written in two ways.
Stores == {Lidl, LIDL}

\* numero_ticket of an extraction result: null or a string.
Numbers == {Null, Str(<<"A", "1">>)}

\* Calendar days; 0 is a null or absent fecha.
Days == {1, 2}

ItemPlain ==
    [cantidad |-> Num(2 * Unit), precio_unitario |-> Num(15000),
     total_linea |-> Num(30000)]

ItemNoTotal ==
    [cantidad |-> Null, precio_unitario |-> Str(<<"1", ",", "2", "0">>),
     total_linea |-> Num(0)]

ProductLists == {<<>>, <<ItemNoTotal>>, <<ItemPlain, ItemNoTotal>>}

\* The structured results the extraction may produce.
Payloads ==
    [tienda : Stores, numero_ticket : Numbers, fecha : {0, 1},
     productos : ProductLists]

NoSave ==
    [stage |-> "none", task_id |-> 0, fault |-> "none",
     data |-> [tienda |-> <<>>, numero_ticket |-> Null, fecha |-> 0,
               productos |-> <<>>],
     fecha |-> 0, nTickets |-> 0, nCompras |-> 0, nResponses |-> 0]

LifeInit == db_restarts = 0

DbInit ==
    /\ tickets = <<>>
    /\ compras = <<>>
    /\ db_tasks = <<>>
    /\ db_last_id = 0
    /\ bot_responses = <<>>
    /\ today = 1
    /\ nBotSaves = 0
    /\ last_save = NoSave

RECURSIVE SumSeq(_)
SumSeq(q) == IF q = <<>> THEN 0 ELSE Head(q) + SumSeq(Tail(q))

\* worker_db.save_ticket_to_db, line 78.
WorkerDbTotal(productos) ==
    SumSeq([i \in DOMAIN productos |->
               parse_float(OrElse(productos[i].total_linea, Num(0)))])

\* process_ticket_photos, line 136, over the prepared items.
BotTotal(productos) ==
    SumSeq([i \in DOMAIN productos |->
               LET t == productos[i].total_linea
               IN IF Truthy(t) THEN t.v ELSE 0])

\* Mutant of WorkerDbMatch: the store compared as written (as bot.py does).
WorkerDbMatchCaseSensitive(row, tienda, numero_ticket, fecha) ==
    /\ row.tienda = tienda
    /\ row.numero_ticket = numero_ticket
    /\ row.fecha = fecha

\* worker_db.save_ticket_to_db, lines 90-92: the WHERE clause.
WorkerDbMatch(row, tienda, numero_ticket, fecha) ==
    /\ Lower(row.tienda) = Lower(tienda)
    /\ row.numero_ticket = numero_ticket
    /\ row.fecha = fecha

\* bot.save_ticket_to_db, lines 173-174: the WHERE clause.
BotMatch(row, tienda, numero_ticket, fecha) ==
    /\ row.tienda = tienda
    /\ row.numero_ticket = numero_ticket
    /\ row.fecha = fecha

\* Mutant of HasNumber: the duplicate check run for every receipt.
HasNumberAlways(numero_ticket) == TRUE

\* "if numero_ticket:", worker_db.py line 88 and bot.py line 171.
HasNumber(numero_ticket) == Truthy(numero_ticket)

\* data.get("fecha") or datetime.now().date()
FechaOrToday(fecha) == IF fecha = 0 THEN today ELSE fecha

TicketRow(fecha, tienda, total_ticket, numero_ticket) ==
    [fecha |-> fecha, tienda |-> tienda, total_ticket |-> total_ticket,
     numero_ticket |-> numero_ticket]

\* The compras rows of one receipt; ticket names the receipt they were
\* inserted with (the table itself holds its fecha and tienda).
CompraRows(ticket_id, rows) ==
    [i \in DOMAIN rows |->
        [ticket |-> ticket_id, cantidad |-> rows[i].cantidad,
         precio_unitario |-> rows[i].precio_unitario,
         total_linea |-> rows[i].total_linea]]

Response(task_id, user_id, status, total, productos) ==
    [task_id |-> task_id, user_id |-> user_id, status |-> status,
     total |-> total, productos |-> productos]

SaveRecord(stage, task_id, fault, data, fecha) ==
    [stage |-> stage, task_id |-> task_id, fault |-> fault, data |-> data,
     fecha |-> fecha, nTickets |-> Len(tickets), nCompras |-> Len(compras),
     nResponses |-> Len(bot_responses)]

\* worker_ia, lines 160-165: the extraction stage appends a record to db_tasks.
EnqueueDbTask(data) ==
    /\ Len(db_tasks) + nBotSaves < MaxSaves
    /\ db_tasks' = Append(db_tasks,
          [task_id |-> Len(db_tasks) + 1, user_id |-> "u1", resultado |-> data])
    /\ UNCHANGED <<tickets, compras, db_last_id, bot_responses, today,
                   nBotSaves, last_save>>
    /\ UNCHANGED nonDbVars

\* data["productos"] is a list when the task has the field productos; a value
\* that is no list (null, a number, or a string given by its tokens) is held
\* in the field productos_json.
IsList(data) == "productos_json" \notin DOMAIN data

\* inner is empty or tok, ",", tok, ... , tok.
Alternates(inner, tok) ==
    \/ inner = <<>>
    \/ /\ Len(inner) % 2 = 1
       /\ \A i \in DOMAIN inner : inner[i] = (IF i % 2 = 1 THEN tok ELSE ",")

\* json.loads of a string of the tokens "[", "]", "{", "}", ",", "item" (a
\* line item object), "kv" (a member), "num" (a number) and "txt" (anything
\* else): the kind of value and how many elements it has, or ok = FALSE for
\* JSONDecodeError.
JsonValue(text) ==
    LET inner == SubSeq(text, 2, Len(text) - 1)
        n == (Len(inner) + 1) \div 2
    IN IF text = <<"num">> THEN [ok |-> TRUE, kind |-> "scalar", n |-> 0]
       ELSE IF Len(text) < 2 THEN [ok |-> FALSE, kind |-> "none", n |-> 0]
       ELSE IF text[1] = "[" /\ text[Len(text)] = "]" /\ Alternates(inner, "item")
       THEN [ok |-> TRUE, kind |-> "list", n |-> n]
       ELSE IF text[1] = "{" /\ text[Len(text)] = "}" /\ Alternates(inner, "kv")
       THEN [ok |-> TRUE, kind |-> "object", n |-> n]
       ELSE [ok |-> FALSE, kind |-> "none", n |-> 0]

\* worker_db.save_ticket_to_db, lines 68-78: productos made a list.  raises:
\* the value left in productos cannot be summed over at line 78 (a number is
\* not iterable, the keys of an object have no get).
RecoverProductos(data) ==
    IF IsList(data) THEN [raises |-> FALSE, list |-> data.productos]
    ELSE LET value == data.productos_json
             parsed == JsonValue(value.s)
         IN IF value.type # "str" THEN [raises |-> FALSE, list |-> <<>>]
            ELSE IF ~parsed.ok THEN [raises |-> FALSE, list |-> <<>>]
            ELSE IF parsed.kind = "list"
            THEN [raises |-> FALSE, list |-> [i \in 1..parsed.n |-> ItemPlain]]
            ELSE IF parsed.kind = "object" /\ parsed.n = 0
            THEN [raises |-> FALSE, list |-> <<>>]
            ELSE [raises |-> TRUE, list |-> <<>>]

\* worker_db.save_ticket_to_db.  fault "db_down": psycopg2.connect raises, and
\* the except of line 162 logs it.  fault "item_raises": the first line item
\* raises before its INSERT is sent (lines 117-121) and the except of line 136
\* logs it.  fault "item_sql_error": the datastore rejects the INSERT of the
\* first line item.
WorkerDbSave(data, task_id, user_id, fault) ==
    LET tienda == data.tienda
        numero_ticket == data.numero_ticket
        fecha == FechaOrToday(data.fecha)
        recovered == RecoverProductos(data)
        productos == recovered.list
        total_ticket == WorkerDbTotal(productos)
        rows == [i \in DOMAIN productos |-> WorkerDbRow(productos[i])]
    IN /\ last_save' = SaveRecord("worker_db", task_id, fault, data, fecha)
       /\ IF fault = "db_down" \/ recovered.raises
          THEN UNCHANGED <<tickets, compras, bot_responses>>
          ELSE IF /\ HasNumber(numero_ticket)
                  /\ \E i \in DOMAIN tickets :
                        WorkerDbMatch(tickets[i], tienda, numero_ticket, fecha)
          THEN /\ bot_responses' = Append(bot_responses,
                      Response(task_id, user_id, "warning", 0, 0))
               /\ UNCHANGED <<tickets, compras>>
          ELSE /\ IF fault = "item_sql_error" /\ productos # <<>>
                  THEN \* the failed INSERT aborts the transaction: the INSERTs
                       \* after it fail too, and commit() of line 139 rolls back
                       UNCHANGED <<tickets, compras>>
                  ELSE /\ tickets' = Append(tickets,
                              TicketRow(fecha, tienda, total_ticket, numero_ticket))
                       /\ compras' = compras \o CompraRows(Len(tickets) + 1,
                              IF fault = "item_raises" /\ productos # <<>>
                              THEN Tail(rows) ELSE rows)
               /\ bot_responses' = Append(bot_responses,
                      Response(task_id, user_id, "ok-todo",
                               Round2(total_ticket), Len(productos)))

\* worker_db, lines 178-216: read the record after last_id, save it, move the cursor.
WorkerDb(fault) ==
    /\ db_last_id < Len(db_tasks)
    /\ LET msg_id == db_last_id + 1
           fields == db_tasks[msg_id]
       IN /\ WorkerDbSave(fields.resultado, fields.task_id, fields.user_id, fault)
          /\ db_last_id' = msg_id
    /\ UNCHANGED <<db_tasks, today, nBotSaves>>
    /\ UNCHANGED nonDbVars

\* process_ticket_photos, lines 113-137, and bot.save_ticket_to_db: the bot
\* process saves an extraction result itself.  fault "db_down": the save
\* returns None.
BotSave(data, fault) ==
    /\ Len(db_tasks) + nBotSaves < MaxSaves
    /\ data.productos # <<>>
    /\ nBotSaves' = nBotSaves + 1
    /\ LET tienda == data.tienda
           numero_ticket == data.numero_ticket
           fecha == FechaOrToday(data.fecha)
           productos == [i \in DOMAIN data.productos |-> BotPrepare(data.productos[i])]
           total_ticket == BotTotal(productos)
           rows == [i \in DOMAIN productos |-> BotRow(productos[i])]
       IN /\ last_save' = SaveRecord("bot", 0, fault, data, fecha)
          /\ IF fault = "db_down"
                \/ /\ HasNumber(numero_ticket)
                   /\ \E i \in DOMAIN tickets :
                         BotMatch(tickets[i], tienda, numero_ticket, fecha)
             THEN UNCHANGED <<tickets, compras>>
             ELSE /\ tickets' = Append(tickets,
                         TicketRow(fecha, tienda, total_ticket, numero_ticket))
                  /\ compras' = compras \o CompraRows(Len(tickets) + 1, rows)
    /\ UNCHANGED <<db_tasks, db_last_id, bot_responses, today>>
    /\ UNCHANGED nonDbVars

\* Midnight passes.
NextDay ==
    /\ today + 1 \in Days
    /\ today' = today + 1
    /\ UNCHANGED <<tickets, compras, db_tasks, db_last_id, bot_responses,
                   nBotSaves, last_save>>
    /\ UNCHANGED nonDbVars

Faults == {"none", "db_down"}

\* Values of productos that are no list.
NoListProductos ==
    { Null, Num(5 * Unit),
      Str(<<"txt">>), Str(<<"[", "item">>),
      Str(<<"num">>), Str(<<"{", "kv", "}">>), Str(<<"{", "}">>),
      Str(<<"[", "]">>), Str(<<"[", "item", ",", "item", "]">>) }

\* The extraction results whose productos is no list.
NoListPayloads ==
    [tienda : {Lidl}, numero_ticket : Numbers, fecha : {1},
     productos_json : NoListProductos]

DbNext ==
    \/ \E data \in Payloads : EnqueueDbTask(data)
    \/ \E fault \in Faults : WorkerDb(fault)
    \/ \E data \in Payloads : \E fault \in Faults : BotSave(data, fault)
    \/ NextDay

\* What may go wrong with a line item.
ItemFaults == {"none", "item_raises", "item_sql_error"}

\* The Persistence Stage with failing line items.
DbItemsNext ==
    \/ \E data \in Payloads : EnqueueDbTask(data)
    \/ \E fault \in ItemFaults : WorkerDb(fault)

\* worker_db is started again: line 174, last_id = "0".
DbRestart ==
    /\ db_restarts < MaxRestarts
    /\ db_restarts' = db_restarts + 1
    /\ db_last_id' = 0
    /\ UNCHANGED <<tickets, compras, db_tasks, bot_responses, today, nBotSaves,
                   last_save>>
    /\ UNCHANGED <<botVars, normVars, iaVars, ocrVars, wireVars>>

\* The Persistence Stage over more than one process lifetime.
DbRestartNext ==
    \/ \E data \in Payloads : EnqueueDbTask(data)
    \/ \E fault \in Faults : WorkerDb(fault)
    \/ DbRestart

\* The Persistence Stage fed with results whose productos is no list.
DbRecoverNext ==
    \/ \E data \in NoListPayloads : EnqueueDbTask(data)
    \/ \E fault \in Faults : WorkerDb(fault)

-----------------------------------------------------------------------------
(* Extraction: worker_ia.llamar_a_llama3, worker_ia *)

\* The text of the LLM as tokens: "{", "}", ",", a blank " ", prose "txt",
\* a member "kv" ("key": value) and the member "kv_null" ("productos": null).
Members == {"kv", "kv_null"}

\* str.find: the first position of tok, 0 for none (Python's -1).
Find(text, tok) ==
    IF \E i \in DOMAIN text : text[i] = tok
    THEN CHOOSE i \in DOMAIN text :
            text[i] = tok /\ \A j \in 1..(i - 1) : text[j] # tok
    ELSE 0

\* str.rfind(tok) + 1: the last position of tok, 0 for none.
RFind(text, tok) ==
    IF \E i \in DOMAIN text : text[i] = tok
    THEN CHOOSE i \in DOMAIN text :
            text[i] = tok /\ \A j \in (i + 1)..Len(text) : text[j] # tok
    ELSE 0

\* full_text[start:end] with the positions of Find and RFind: empty when
\* either is missing or the last "}" comes before the first "{".
Slice(text, start, end) ==
    IF start = 0 \/ end < start THEN <<>> ELSE SubSeq(text, start, end)

RECURSIVE Unblank(_)
Unblank(text) ==
    IF text = <<>> THEN <<>>
    ELSE IF Head(text) = " " THEN Unblank(Tail(text))
         ELSE <<Head(text)>> \o Unblank(Tail(text))

\* json.loads of a text that must be one object: its members, or ok = FALSE
\* for JSONDecodeError.
JsonLoads(text) ==
    LET t == Unblank(text)
        inner == SubSeq(t, 2, Len(t) - 1)
    IN IF /\ Len(t) >= 2
          /\ t[1] = "{" /\ t[Len(t)] = "}"
          /\ \/ inner = <<>>
             \/ /\ Len(inner) % 2 = 1
                /\ \A i \in DOMAIN inner :
                      IF i % 2 = 1 THEN inner[i] \in Members ELSE inner[i] = ","
       THEN [ok |-> TRUE,
             members |-> [k \in 1..((Len(inner) + 1) \div 2) |-> inner[2 * k - 1]]]
       ELSE [ok |-> FALSE, members |-> <<>>]

\* worker_ia.llamar_a_llama3: the parsed object as the sequence of its
\* members; <<>> is {}.  answer.raised: the request (or reading the prompt) raised.
llamar_a_llama3(answer) ==
    LET full_text == answer.text
        start == Find(full_text, "{")
        end == RFind(full_text, "}")
        parsed == JsonLoads(Slice(full_text, start, end))
    IN IF answer.raised THEN <<>>
       ELSE IF Unblank(full_text) = <<>> THEN <<>>
       ELSE IF start = 0 \/ end = 0 THEN <<>>
       ELSE IF ~parsed.ok THEN <<>>
       \* line 89: len(parsed.get('productos', [])) raises on null
       ELSE IF \E i \in DOMAIN parsed.members : parsed.members[i] = "kv_null" THEN <<>>
       ELSE parsed.members

Answer(raised, text) == [raised |-> raised, text |-> text]

\* What the LLM service may answer.
LlmAnswers ==
    { Answer(TRUE, <<>>),
      Answer(FALSE, <<>>),
      Answer(FALSE, <<" ">>),
      Answer(FALSE, <<"txt">>),
      Answer(FALSE, <<"{", "kv">>),
      Answer(FALSE, <<"}", "txt", "{">>),
      Answer(FALSE, <<"{", "kv", "kv", "}">>),
      Answer(FALSE, <<"{", "kv", "}", "txt", "{", "kv", "}">>),
      Answer(FALSE, <<"{", "kv", ",", "kv_null", "}">>),
      Answer(FALSE, <<"{", "}">>),
      Answer(FALSE, <<"txt", "{", "kv", "}", "txt">>),
      Answer(FALSE, <<"{", " ", "kv", ",", "kv", " ", "}">>) }

\* The answer is unparseable, empty or absent: nothing between its first "{"
\* and its last "}" is an object.
Unparseable(answer) ==
    \/ answer.raised
    \/ ~JsonLoads(Slice(answer.text, Find(answer.text, "{"),
                        RFind(answer.text, "}"))).ok

NoMsg == [id |-> 0, task_id |-> 0, user_id |-> "", ocr_text |-> ""]

NoLog == [msg |-> NoMsg, answer |-> Answer(FALSE, <<>>), called |-> FALSE,
          faulted |-> FALSE, handled |-> FALSE]

IaIds == 1..MaxIaTasks

IaInit ==
    /\ ia_tasks = <<>>
    /\ ia_next_id = 1
    /\ ia_last_id = 0
    /\ ia_pc = "read"
    /\ ia_msg = NoMsg
    /\ ia_result = <<>>
    /\ ia_faults = 0
    /\ ia_log = [r \in IaIds |-> NoLog]

\* Mutant of XDel: the record is left in the stream.
XDelKept(stream, id) == stream

\* redis xdel: the stream without the record of that id.
XDel(stream, id) == SelectSeq(stream, LAMBDA rec : rec.id # id)

\* Mutant of After: the records after the cursor, newest first.
AfterNewestFirst(stream, cursor) ==
    LET s == SelectSeq(stream, LAMBDA rec : rec.id > cursor)
    IN [i \in 1..Len(s) |-> s[Len(s) + 1 - i]]

\* redis xread from a cursor with count=1: the records after the cursor.
After(stream, cursor) == SelectSeq(stream, LAMBDA rec : rec.id > cursor)

\* worker_ocr, lines 72-76: the OCR stage appends a record to ia_tasks.
IaEnqueue(ocr_text) ==
    /\ ia_next_id <= MaxIaTasks
    /\ ia_tasks' = Append(ia_tasks,
          [id |-> ia_next_id, task_id |-> ia_next_id, user_id |-> "u1",
           ocr_text |-> ocr_text])
    /\ ia_next_id' = ia_next_id + 1
    /\ UNCHANGED <<ia_last_id, ia_pc, ia_msg, ia_result, ia_faults, ia_log>>
    /\ UNCHANGED <<db_tasks, bot_responses>>
    /\ UNCHANGED nonIaVars

\* An awaited broker call or a file write raises: the except of line 172
\* logs it and sleeps.
IaRaise ==
    /\ ia_faults < MaxIaFaults
    /\ ia_faults' = ia_faults + 1
    /\ ia_pc' = "sleep"
    /\ ia_log' = IF ia_msg.id \in IaIds
                 THEN [ia_log EXCEPT ![ia_msg.id].faulted = TRUE,
                                     ![ia_msg.id].handled = TRUE]
                 ELSE ia_log
    /\ ia_msg' = NoMsg
    /\ ia_result' = <<>>

\* worker_ia, lines 108-120: xread the record after last_id.
IaRead(ok) ==
    /\ ia_pc = "read"
    /\ IF ~ok
       THEN /\ IaRaise
            /\ UNCHANGED <<ia_tasks, ia_next_id, ia_last_id>>
       ELSE /\ After(ia_tasks, ia_last_id) # <<>>
            /\ ia_msg' = Head(After(ia_tasks, ia_last_id))
            /\ ia_pc' = "got"
            /\ ia_log' = [ia_log EXCEPT ![ia_msg'.id] =
                            [NoLog EXCEPT !.msg = ia_msg',
                                          !.faulted = ia_log[ia_msg'.id].faulted]]
            /\ UNCHANGED <<ia_tasks, ia_next_id, ia_last_id, ia_result, ia_faults>>
    /\ UNCHANGED <<db_tasks, bot_responses>>
    /\ UNCHANGED nonIaVars

\* worker_ia, lines 121-124: a record without OCR text is deleted and skipped.
IaDropNoText(ok) ==
    /\ ia_pc = "got"
    /\ ia_msg.ocr_text = ""
    /\ IF ~ok
       THEN /\ IaRaise
            /\ UNCHANGED ia_tasks
       ELSE /\ ia_tasks' = XDel(ia_tasks, ia_msg.id)
            /\ ia_pc' = "read"
            /\ ia_log' = [ia_log EXCEPT ![ia_msg.id].handled = TRUE]
            /\ ia_msg' = NoMsg
            /\ UNCHANGED <<ia_result, ia_faults>>
    /\ UNCHANGED <<ia_next_id, ia_last_id, db_tasks, bot_responses>>
    /\ UNCHANGED nonIaVars

\* worker_ia, lines 126-128: call the LLM and parse its answer.
IaCallLlm(answer) ==
    /\ ia_pc = "got"
    /\ ia_msg.ocr_text # ""
    /\ ia_result' = llamar_a_llama3(answer)
    /\ ia_pc' = IF ia_result' = <<>> THEN "failed_xdel" ELSE "ok_respond"
    /\ ia_log' = [ia_log EXCEPT ![ia_msg.id].answer = answer,
                                ![ia_msg.id].called = TRUE]
    /\ UNCHANGED <<ia_tasks, ia_next_id, ia_last_id, ia_msg, ia_faults>>
    /\ UNCHANGED <<db_tasks, bot_responses>>
    /\ UNCHANGED nonIaVars

\* worker_ia, lines 129-130: no result, delete the record.
IaFailedXdel(ok) ==
    /\ ia_pc = "failed_xdel"
    /\ IF ~ok
       THEN /\ IaRaise
            /\ UNCHANGED ia_tasks
       ELSE /\ ia_tasks' = XDel(ia_tasks, ia_msg.id)
            /\ ia_pc' = "failed_respond"
            /\ UNCHANGED <<ia_msg, ia_result, ia_faults, ia_log>>
    /\ UNCHANGED <<ia_next_id, ia_last_id, db_tasks, bot_responses>>
    /\ UNCHANGED nonIaVars

\* worker_ia, lines 132-141: report the failure and go on with the loop.
IaFailedRespond(ok) ==
    /\ ia_pc = "failed_respond"
    /\ IF ~ok
       THEN /\ IaRaise
            /\ UNCHANGED bot_responses
       ELSE /\ bot_responses' = Append(bot_responses,
                   Response(ia_msg.task_id, ia_msg.user_id, "Error", 0, 0))
            /\ ia_pc' = "read"
            /\ ia_log' = [ia_log EXCEPT ![ia_msg.id].handled = TRUE]
            /\ ia_msg' = NoMsg
            /\ ia_result' = <<>>
            /\ UNCHANGED ia_faults
    /\ UNCHANGED <<ia_tasks, ia_next_id, ia_last_id, db_tasks>>
    /\ UNCHANGED nonIaVars

\* worker_ia, lines 145-152: report the extraction.
IaOkRespond(ok) ==
    /\ ia_pc = "ok_respond"
    /\ IF ~ok
       THEN /\ IaRaise
            /\ UNCHANGED bot_responses
       ELSE /\ bot_responses' = Append(bot_responses,
                   Response(ia_msg.task_id, ia_msg.user_id, "ok", 0, 0))
            /\ ia_pc' = "ok_cache"
            /\ UNCHANGED <<ia_msg, ia_result, ia_faults, ia_log>>
    /\ UNCHANGED <<ia_tasks, ia_next_id, ia_last_id, db_tasks>>
    /\ UNCHANGED nonIaVars

\* worker_ia, lines 155-157: write the audit file.
IaOkCache(ok) ==
    /\ ia_pc = "ok_cache"
    /\ IF ~ok
       THEN IaRaise
       ELSE /\ ia_pc' = "ok_forward"
            /\ UNCHANGED <<ia_msg, ia_result, ia_faults, ia_log>>
    /\ UNCHANGED <<ia_tasks, ia_next_id, ia_last_id, db_tasks, bot_responses>>
    /\ UNCHANGED nonIaVars

\* worker_ia, lines 160-166: append the result to db_tasks.
IaOkForward(ok) ==
    /\ ia_pc = "ok_forward"
    /\ IF ~ok
       THEN /\ IaRaise
            /\ UNCHANGED db_tasks
       ELSE /\ db_tasks' = Append(db_tasks,
                   [task_id |-> ia_msg.task_id, user_id |-> ia_msg.user_id,
                    resultado |-> ia_result])
            /\ ia_pc' = "ok_xdel"
            /\ UNCHANGED <<ia_msg, ia_result, ia_faults, ia_log>>
    /\ UNCHANGED <<ia_tasks, ia_next_id, ia_last_id, bot_responses>>
    /\ UNCHANGED nonIaVars

\* worker_ia, lines 169-170: delete the record and move the cursor.
IaOkXdel(ok) ==
    /\ ia_pc = "ok_xdel"
    /\ IF ~ok
       THEN /\ IaRaise
            /\ UNCHANGED <<ia_tasks, ia_last_id>>
       ELSE /\ ia_tasks' = XDel(ia_tasks, ia_msg.id)
            /\ ia_last_id' = ia_msg.id
            /\ ia_pc' = "read"
            /\ ia_log' = [ia_log EXCEPT ![ia_msg.id].handled = TRUE]
            /\ ia_msg' = NoMsg
            /\ ia_result' = <<>>
            /\ UNCHANGED ia_faults
    /\ UNCHANGED <<ia_next_id, db_tasks, bot_responses>>
    /\ UNCHANGED nonIaVars

\* worker_ia, lines 172-174: the sleep after a failure is over.
IaWake ==
    /\ ia_pc = "sleep"
    /\ ia_pc' = "read"
    /\ UNCHANGED <<ia_tasks, ia_next_id, ia_last_id, ia_msg, ia_result,
                   ia_faults, ia_log>>
    /\ UNCHANGED <<db_tasks, bot_responses>>
    /\ UNCHANGED nonIaVars

IaNext ==
    \/ \E ocr_text \in {"", "text"} : IaEnqueue(ocr_text)
    \/ \E ok \in BOOLEAN : IaRead(ok)
    \/ \E ok \in BOOLEAN : IaDropNoText(ok)
    \/ \E answer \in LlmAnswers : IaCallLlm(answer)
    \/ \E ok \in BOOLEAN : IaFailedXdel(ok)
    \/ \E ok \in BOOLEAN : IaFailedRespond(ok)
    \/ \E ok \in BOOLEAN : IaOkRespond(ok)
    \/ \E ok \in BOOLEAN : IaOkCache(ok)
    \/ \E ok \in BOOLEAN : IaOkForward(ok)
    \/ \E ok \in BOOLEAN : IaOkXdel(ok)
    \/ IaWake

-----------------------------------------------------------------------------
(* OCR: worker_ocr *)

\* The photos of a receipt.
PhotoNumbers == {1, 2, 3}

\* The photo files of the batches, by record id.
PathTable ==
    << <<"p11", "p12", "p13">>, <<"p21", "p22", "p23">>, <<"p31", "p32", "p33">> >>

\* The path of photo k of the batch submitted as record r.
Path(r, k) == PathTable[r][k]

\* result.document.text of a photo file; the third photo of a batch has no
\* text (None).
DocText(path) ==
    IF \E r \in DOMAIN PathTable : Path(r, 1) = path THEN <<"a">>
    ELSE IF \E r \in DOMAIN PathTable : Path(r, 2) = path THEN <<"b", "c">>
    ELSE <<>>

\* json.dumps of a list of paths, as tokens.
RECURSIVE JsonList(_)
JsonList(paths) ==
    IF paths = <<>> THEN <<"[", "]">>
    ELSE IF Len(paths) = 1 THEN <<"[", paths[1], "]">>
    ELSE <<"[", paths[1], ",">> \o Tail(JsonList(Tail(paths)))

\* json.loads of photo_paths: the list, or ok = FALSE for JSONDecodeError.
JsonLoadsList(text) ==
    LET inner == SubSeq(text, 2, Len(text) - 1)
    IN IF /\ Len(text) >= 2
          /\ text[1] = "[" /\ text[Len(text)] = "]"
          /\ \/ inner = <<>>
             \/ /\ Len(inner) % 2 = 1
                /\ \A i \in DOMAIN inner :
                      IF i % 2 = 1 THEN inner[i] \notin {"[", "]", ","}
                                   ELSE inner[i] = ","
       THEN [ok |-> TRUE,
             list |-> [k \in 1..((Len(inner) + 1) \div 2) |-> inner[2 * k - 1]]]
       ELSE [ok |-> FALSE, list |-> <<>>]

\* int(str) on a plain decimal; ok = FALSE stands for ValueError.
ParseInt(str) ==
    IF str # <<>> /\ AllDigits(str)
    THEN [ok |-> TRUE, v |-> DigitsValue(str)]
    ELSE [ok |-> FALSE, v |-> 0]

\* Mutant of CombinedText: the texts joined from the last photo to the first.
RECURSIVE CombinedTextReversed(_)
CombinedTextReversed(paths) ==
    IF paths = <<>> THEN <<>>
    ELSE CombinedTextReversed(Tail(paths)) \o DocText(Head(paths)) \o <<"\n">>

\* worker_ocr, lines 57-69: combined_text += text + "\n" for each path.
RECURSIVE CombinedText(_)
CombinedText(paths) ==
    IF paths = <<>> THEN <<>>
    ELSE DocText(Head(paths)) \o <<"\n">> \o CombinedText(Tail(paths))

\* user_id of an ocr_tasks record: a session id, or not a number.
UserIds == { <<"7">>, <<"4", "2">>, <<"a", "b", "c">> }

\* How many photos a batch has; 0 stands for a photo_paths text that is cut off.
BatchSizes == {0, 1, 3}

\* photo_paths of the record with id r: the list of n paths as JSON.
PhotoPaths(r, n) ==
    IF n = 0 THEN <<"[", Path(r, 1)>>
    ELSE JsonList([k \in 1..n |-> Path(r, k)])

NoOcrMsg == [id |-> 0, task_id |-> 0, user_id |-> <<>>, photo_paths |-> <<>>,
             uid |-> 0, paths |-> <<>>, combined_text |-> <<>>]

NoOcrLog == [msg |-> NoOcrMsg, deliveries |-> 0, failed |-> FALSE,
             redelivered |-> FALSE, faulted |-> FALSE, done |-> FALSE]

OcrIds == 1..MaxOcrTasks

OcrInit ==
    /\ ocr_tasks = <<>>
    /\ ocr_next_id = 1
    /\ photo_files = {}
    /\ ocr_pc = "read"
    /\ ocr_msg = NoOcrMsg
    /\ ocr_faults = 0
    /\ ocr_log = [r \in OcrIds |-> NoOcrLog]

\* The intake submits a batch: its photo files are on disk and a record is
\* appended to ocr_tasks.
OcrEnqueue(user_id, n) ==
    /\ ocr_next_id <= MaxOcrTasks
    /\ ocr_tasks' = Append(ocr_tasks,
          [id |-> ocr_next_id, task_id |-> ocr_next_id, user_id |-> user_id,
           photo_paths |-> PhotoPaths(ocr_next_id, n)])
    /\ photo_files' = photo_files \cup { Path(ocr_next_id, k) : k \in PhotoNumbers }
    /\ ocr_next_id' = ocr_next_id + 1
    /\ UNCHANGED <<ocr_pc, ocr_msg, ocr_faults, ocr_log>>
    /\ UNCHANGED <<ia_tasks, ia_next_id, bot_responses>>
    /\ UNCHANGED nonOcrVars

\* An awaited xadd or xdel raises inside the try: the except of line 99 logs
\* it and the loop goes on.
OcrRaise ==
    /\ ocr_faults < MaxOcrFaults
    /\ ocr_faults' = ocr_faults + 1
    /\ ocr_pc' = "read"
    /\ ocr_log' = [ocr_log EXCEPT ![ocr_msg.id].faulted = TRUE]
    /\ ocr_msg' = NoOcrMsg

\* A delivery counted, up to "more than once".
Delivered(n) == IF n < 2 THEN n + 1 ELSE 2

\* worker_ocr, lines 47-70: xread from "0", read the fields, OCR every photo.
\* broker_ok = FALSE: xread raises; ocr_ok = FALSE: process_document raises.
OcrRead(broker_ok, ocr_ok) ==
    /\ ocr_pc = "read"
    /\ IF ~broker_ok
       THEN \* line 47 is outside every try: the exception ends worker_ocr
            /\ ocr_pc' = "crashed"
            /\ UNCHANGED <<ocr_msg, ocr_log>>
       ELSE /\ ocr_tasks # <<>>
            /\ LET fields == Head(ocr_tasks)
                   user_id == ParseInt(fields.user_id)
                   photo_paths == JsonLoadsList(fields.photo_paths)
                   raised == \/ ~ocr_ok
                             \/ \E i \in DOMAIN photo_paths.list :
                                   photo_paths.list[i] \notin photo_files
                   log == [ocr_log[fields.id] EXCEPT
                              !.msg = fields,
                              !.deliveries = Delivered(@),
                              !.redelivered = @ \/ ocr_log[fields.id].failed]
               IN IF ~user_id.ok \/ ~photo_paths.ok
                  THEN \* lines 54 and 56 are outside the try
                       /\ ocr_pc' = "crashed"
                       /\ ocr_msg' = NoOcrMsg
                       /\ ocr_log' = [ocr_log EXCEPT ![fields.id] = log]
                  ELSE IF raised
                  THEN /\ ocr_pc' = "read"
                       /\ ocr_msg' = NoOcrMsg
                       /\ ocr_log' = [ocr_log EXCEPT ![fields.id] =
                                         [log EXCEPT !.failed = TRUE]]
                  ELSE /\ ocr_pc' = "forward"
                       /\ ocr_msg' = [id |-> fields.id, task_id |-> fields.task_id,
                                      user_id |-> fields.user_id,
                                      photo_paths |-> fields.photo_paths,
                                      uid |-> user_id.v,
                                      paths |-> photo_paths.list,
                                      combined_text |-> CombinedText(photo_paths.list)]
                       /\ ocr_log' = [ocr_log EXCEPT ![fields.id] = log]
    /\ UNCHANGED <<ocr_tasks, ocr_next_id, photo_files, ocr_faults>>
    /\ UNCHANGED <<ia_tasks, ia_next_id, bot_responses>>
    /\ UNCHANGED nonOcrVars

\* worker_ocr, lines 72-76: append the text to ia_tasks.
OcrForward(ok) ==
    /\ ocr_pc = "forward"
    /\ IF ~ok
       THEN /\ OcrRaise
            /\ UNCHANGED <<ia_tasks, ia_next_id>>
       ELSE /\ ia_tasks' = Append(ia_tasks,
                   [id |-> ia_next_id, task_id |-> ocr_msg.task_id,
                    user_id |-> ocr_msg.uid, ocr_text |-> ocr_msg.combined_text])
            /\ ia_next_id' = ia_next_id + 1
            /\ ocr_pc' = "respond"
            /\ UNCHANGED <<ocr_msg, ocr_faults, ocr_log>>
    /\ UNCHANGED <<ocr_tasks, ocr_next_id, photo_files, bot_responses>>
    /\ UNCHANGED nonOcrVars

\* worker_ocr, lines 78-85: report the OCR.
OcrRespond(ok) ==
    /\ ocr_pc = "respond"
    /\ IF ~ok
       THEN /\ OcrRaise
            /\ UNCHANGED bot_responses
       ELSE /\ bot_responses' = Append(bot_responses,
                   Response(ocr_msg.task_id, ocr_msg.uid, "ok", 0, 0))
            /\ ocr_pc' = "cleanup"
            /\ UNCHANGED <<ocr_msg, ocr_faults, ocr_log>>
    /\ UNCHANGED <<ocr_tasks, ocr_next_id, photo_files, ia_tasks, ia_next_id>>
    /\ UNCHANGED nonOcrVars

\* worker_ocr, lines 90-97: remove the photo files, then delete the record.
OcrCleanup(ok) ==
    /\ ocr_pc = "cleanup"
    /\ photo_files' = photo_files \ Range(ocr_msg.paths)
    /\ IF ~ok
       THEN /\ OcrRaise
            /\ UNCHANGED ocr_tasks
       ELSE /\ ocr_tasks' = XDel(ocr_tasks, ocr_msg.id)
            /\ ocr_pc' = "read"
            /\ ocr_log' = [ocr_log EXCEPT ![ocr_msg.id].done = TRUE]
            /\ ocr_msg' = NoOcrMsg
            /\ UNCHANGED ocr_faults
    /\ UNCHANGED <<ocr_next_id, ia_tasks, ia_next_id, bot_responses>>
    /\ UNCHANGED nonOcrVars

OcrNext ==
    \/ \E user_id \in UserIds : \E n \in BatchSizes : OcrEnqueue(user_id, n)
    \/ \E broker_ok \in BOOLEAN : \E ocr_ok \in BOOLEAN : OcrRead(broker_ok, ocr_ok)
    \/ \E ok \in BOOLEAN : OcrForward(ok)
    \/ \E ok \in BOOLEAN : OcrRespond(ok)
    \/ \E ok \in BOOLEAN : OcrCleanup(ok)

-----------------------------------------------------------------------------
(* The db_tasks record on the stream: json.dumps in worker_ia, json.loads in
   worker_db.  Objects and lists keep their shape; every scalar is written as
   text and read back from text. *)

nonWireVars == <<botVars, normVars, dbVars, iaVars, ocrVars, db_restarts>>

\* str of a natural number.
RECURSIVE NatDigits(_)
NatDigits(n) ==
    IF n < 10 THEN <<Digits[n + 1]>>
    ELSE NatDigits(n \div 10) \o <<Digits[(n % 10) + 1]>>

\* The decimals of a float, shortest form: no trailing zero but the first.
FracDigits(f) ==
    LET d == <<Digits[(f \div 1000) + 1], Digits[((f \div 100) % 10) + 1],
               Digits[((f \div 10) % 10) + 1], Digits[(f % 10) + 1]>>
        used == {i \in 1..4 : d[i] # "0"} \cup {1}
        last == CHOOSE i \in used : \A j \in used : j <= i
    IN SubSeq(d, 1, last)

\* Mutant of DumpNumber: the number is written without its decimals.
DumpNumberTruncated(v) == NatDigits(v \div Unit)

\* json.dumps of a number: float.__repr__, which float() reads back exactly
\* (an int has no point; its value is the same).
DumpNumber(v) == NatDigits(v \div Unit) \o <<".">> \o FracDigits(v % Unit)

\* Characters json.dumps writes behind a backslash.
Escaped == {"\"", "\\"}

\* ensure_ascii: a character outside ASCII is written as \uXXXX.
NonAscii == {"€", "í"}
CodePoint(c) == IF c = "€" THEN <<"2", "0", "a", "c">> ELSE <<"0", "0", "e", "d">>

RECURSIVE EscapeStr(_)
EscapeStr(str) ==
    IF str = <<>> THEN <<>>
    ELSE LET c == Head(str)
         IN (IF c \in Escaped THEN <<"\\", c>>
             ELSE IF c \in NonAscii THEN <<"\\", "u">> \o CodePoint(c)
             ELSE <<c>>) \o EscapeStr(Tail(str))

\* json.dumps of a string.
DumpStr(str) == <<"\"">> \o EscapeStr(str) \o <<"\"">>

\* json.dumps of None.
NullText == <<"n", "u", "l", "l">>

\* json.dumps of a scalar.
DumpScalar(x) ==
    CASE x.type = "null" -> NullText
      [] x.type = "num" -> DumpNumber(x.v)
      [] OTHER -> DumpStr(x.s)

\* The text between the quotes of a JSON string, read back; ok = FALSE for
\* JSONDecodeError (a bare quote, an unknown escape).
RECURSIVE UnescapeStr(_)
UnescapeStr(text) ==
    IF text = <<>> THEN [ok |-> TRUE, s |-> <<>>]
    ELSE IF Head(text) = "\"" THEN [ok |-> FALSE, s |-> <<>>]
    ELSE IF Head(text) # "\\"
         THEN LET rest == UnescapeStr(Tail(text))
              IN [ok |-> rest.ok, s |-> <<Head(text)>> \o rest.s]
    ELSE IF Len(text) >= 2 /\ text[2] \in Escaped
         THEN LET rest == UnescapeStr(SubSeq(text, 3, Len(text)))
              IN [ok |-> rest.ok, s |-> <<text[2]>> \o rest.s]
    ELSE IF /\ Len(text) >= 6 /\ text[2] = "u"
            /\ \E c \in NonAscii : CodePoint(c) = SubSeq(text, 3, 6)
         THEN LET rest == UnescapeStr(SubSeq(text, 7, Len(text)))
                  c == CHOOSE c \in NonAscii : CodePoint(c) = SubSeq(text, 3, 6)
              IN [ok |-> rest.ok, s |-> <<c>> \o rest.s]
    ELSE [ok |-> FALSE, s |-> <<>>]

\* json.loads of the text of a scalar.
LoadScalar(text) ==
    IF text = NullText THEN [ok |-> TRUE, x |-> Null]
    ELSE IF Len(text) >= 2 /\ Head(text) = "\"" /\ text[Len(text)] = "\""
         THEN LET str == UnescapeStr(SubSeq(text, 2, Len(text) - 1))
              IN [ok |-> str.ok, x |-> Str(str.s)]
    ELSE LET number == ParseDecimal(text)
         IN [ok |-> number.ok, x |-> Num(number.v)]

\* fecha: null (0) or a date string, a calendar day written by its number.
FechaValue(fecha) == IF fecha = 0 THEN Null ELSE Str(NatDigits(fecha))

\* json.dumps(resultado_llama), line 164.
DumpResult(data) ==
    [tienda |-> DumpStr(data.tienda),
     numero_ticket |-> DumpScalar(data.numero_ticket),
     fecha |-> DumpScalar(FechaValue(data.fecha)),
     productos |-> [i \in DOMAIN data.productos |->
                      [cantidad |-> DumpScalar(data.productos[i].cantidad),
                       precio_unitario |-> DumpScalar(data.productos[i].precio_unitario),
                       total_linea |-> DumpScalar(data.productos[i].total_linea)]]]

\* json.loads(resultado_raw), line 192; ok = FALSE for JSONDecodeError.
LoadResult(text) ==
    LET tienda == LoadScalar(text.tienda)
        numero_ticket == LoadScalar(text.numero_ticket)
        fecha == LoadScalar(text.fecha)
        line(i) == [cantidad |-> LoadScalar(text.productos[i].cantidad),
                    precio_unitario |-> LoadScalar(text.productos[i].precio_unitario),
                    total_linea |-> LoadScalar(text.productos[i].total_linea)]
    IN [ok |-> /\ tienda.ok /\ tienda.x.type = "str"
               /\ numero_ticket.ok
               /\ fecha.ok
               /\ \/ fecha.x.type = "null"
                  \/ fecha.x.type = "str" /\ fecha.x.s # <<>> /\ AllDigits(fecha.x.s)
               /\ \A i \in DOMAIN text.productos :
                     /\ line(i).cantidad.ok
                     /\ line(i).precio_unitario.ok
                     /\ line(i).total_linea.ok,
        data |-> [tienda |-> tienda.x.s,
                  numero_ticket |-> numero_ticket.x,
                  fecha |-> IF fecha.x.type = "str" /\ AllDigits(fecha.x.s)
                            THEN DigitsValue(fecha.x.s) ELSE 0,
                  productos |-> [i \in DOMAIN text.productos |->
                                   [cantidad |-> line(i).cantidad.x,
                                    precio_unitario |-> line(i).precio_unitario.x,
                                    total_linea |-> line(i).total_linea.x]]]]

\* The value of a field handed to xadd: redis writes a str as it is and an
\* int as its digits; None raises DataError.
RedisField(x) ==
    CASE x.type = "null" -> [ok |-> FALSE, text |-> <<>>]
      [] x.type = "num" -> [ok |-> TRUE, text |-> NatDigits(x.v \div Unit)]
      [] OTHER -> [ok |-> TRUE, text |-> x.s]

\* Line items with values that look like another value when written.
ItemQuoted ==
    [cantidad |-> Num(12345),
     precio_unitario |-> Str(<<"1", ",", "2", "0", "€">>),
     total_linea |-> Str(<<"a", "\"", "\\", "b">>)]

ItemLookalike ==
    [cantidad |-> Str(<<>>), precio_unitario |-> Str(<<"1", ".", "5">>),
     total_linea |-> Num(5)]

\* The structured results written to db_tasks.
WireResults ==
    { [tienda |-> Lidl, numero_ticket |-> Null, fecha |-> 0, productos |-> <<>>],
      [tienda |-> Lidl, numero_ticket |-> Str(<<"A", "1">>), fecha |-> 1,
       productos |-> <<ItemPlain, ItemNoTotal>>],
      [tienda |-> <<"D", "í", "a">>, numero_ticket |-> Str(NullText), fecha |-> 2,
       productos |-> <<ItemQuoted>>],
      [tienda |-> <<>>, numero_ticket |-> Str(<<"7">>), fecha |-> 0,
       productos |-> <<ItemLookalike, ItemQuoted>>] }

\* task_id and user_id as worker_ia read them from ia_tasks: a string, or
\* None for a field the record does not have.
WireTaskIds == {Str(<<"7">>), Str(<<"t", "-", "1">>)}
WireUserIds == {Str(<<"4", "2">>), Null}

WireInit ==
    /\ wire_stream = <<>>
    /\ wire_sent = <<>>
    /\ wire_received = <<>>

\* worker_ia, lines 160-165: xadd to db_tasks.  A field that is None raises
\* (the except of line 172 logs it) and nothing is appended.
WireSend(data, task_id, user_id) ==
    /\ Len(wire_stream) < MaxWire
    /\ IF RedisField(task_id).ok /\ RedisField(user_id).ok
       THEN /\ wire_stream' = Append(wire_stream,
                  [task_id |-> RedisField(task_id).text,
                   user_id |-> RedisField(user_id).text,
                   resultado |-> DumpResult(data)])
            /\ wire_sent' = Append(wire_sent,
                  [task_id |-> task_id, user_id |-> user_id, resultado |-> data])
       ELSE UNCHANGED <<wire_stream, wire_sent>>
    /\ UNCHANGED wire_received
    /\ UNCHANGED nonWireVars

\* worker_db, lines 178-193: read the next record of db_tasks, take task_id
\* and user_id from its fields (decode_responses: strings) and parse resultado.
WireReceive ==
    /\ Len(wire_received) < Len(wire_stream)
    /\ LET fields == wire_stream[Len(wire_received) + 1]
           resultado == LoadResult(fields.resultado)
       IN wire_received' = Append(wire_received,
             [task_id |-> Str(fields.task_id), user_id |-> Str(fields.user_id),
              parsed |-> resultado.ok, resultado |-> resultado.data])
    /\ UNCHANGED <<wire_stream, wire_sent>>
    /\ UNCHANGED nonWireVars

WireNext ==
    \/ \E data \in WireResults : \E task_id \in WireTaskIds :
          \E user_id \in WireUserIds : WireSend(data, task_id, user_id)
    \/ WireReceive

-----------------------------------------------------------------------------
(* Specifications: one per component, the other components at rest *)

InitBot == BotInit /\ NormIdle /\ DbInit /\ IaInit /\ OcrInit /\ LifeInit /\ WireInit

SpecBot == InitBot /\ [][BotNext]_vars

InitNorm == BotInit /\ NormInit /\ DbInit /\ IaInit /\ OcrInit /\ LifeInit /\ WireInit

SpecNorm == InitNorm /\ [][NormNext]_vars

InitDb == BotInit /\ NormIdle /\ DbInit /\ IaInit /\ OcrInit /\ LifeInit /\ WireInit

SpecDb == InitDb /\ [][DbNext]_vars

InitDbRecover == BotInit /\ NormIdle /\ DbInit /\ IaInit /\ OcrInit /\ LifeInit /\ WireInit

SpecDbRecover == InitDbRecover /\ [][DbRecoverNext]_vars

InitDbItems == BotInit /\ NormIdle /\ DbInit /\ IaInit /\ OcrInit /\ LifeInit /\ WireInit

SpecDbItems == InitDbItems /\ [][DbItemsNext]_vars

InitDbRestart == BotInit /\ NormIdle /\ DbInit /\ IaInit /\ OcrInit /\ LifeInit /\ WireInit

SpecDbRestart == InitDbRestart /\ [][DbRestartNext]_vars

InitWire == BotInit /\ NormIdle /\ DbInit /\ IaInit /\ OcrInit /\ LifeInit /\ WireInit

SpecWire == InitWire /\ [][WireNext]_vars

InitIa == BotInit /\ NormIdle /\ DbInit /\ IaInit /\ OcrInit /\ LifeInit /\ WireInit

SpecIa == InitIa /\ [][IaNext]_vars

InitOcr == BotInit /\ NormIdle /\ DbInit /\ IaInit /\ OcrInit /\ LifeInit /\ WireInit

SpecOcr == InitOcr /\ [][OcrNext]_vars


-----------------------------------------------------------------------------
(* Claims about the debounced intake *)

Last(q) == q[Len(q)]

SubsBy(t) == {i \in DOMAIN submissions : submissions[i].by = t}

IsSuffix(b, q) ==
    /\ Len(b) <= Len(q)
    /\ SubSeq(q, Len(q) - Len(b) + 1, Len(q)) = b

\* Temporary files are numbered as they arrive: arrival order is increasing order.
InArrivalOrder(q) == \A i, j \in DOMAIN q : i < j => q[i] < q[j]

C2_CancelClearsAndDisarms ==
    /\ \A s \in Sessions :
          (handler.pc = "cancel_reply" /\ handler.session = s) =>
              /\ ticket_photos[s] = <<>>
              /\ photo_timer[s] # 0 => timers[photo_timer[s]].pc # "sleep"
    /\ \A i \in DOMAIN submissions : ~submissions[i].dropped

\* C3: under every interleaving of photo arrival, timer expiry and /cancel,
\* no photo is included in more than one submission, and no submission is
\* made from a sequence to which a photo is about to be appended.
C3_CancelAlwaysWins ==
    /\ \A i, j \in DOMAIN submissions :
          i # j => Range(submissions[i].photos) \cap Range(submissions[j].photos) = {}
    /\ \A i \in DOMAIN submissions : ~submissions[i].appendPending

-----------------------------------------------------------------------------
(* Claims about line-item normalisation *)

\* C7: for every line item whose normalised line_total is 0 and whose
\* normalised unit_price is > 0, whatever the raw encoding of the zero, the
\* persisted line_total equals round(quantity * unit_price, 2), in the row
\* written by worker_db and in the row written by bot.
C7_LineTotalDerived ==
    /\ (/\ row_db # NoRow
        /\ parse_float(item.total_linea) = 0
        /\ parse_float(item.precio_unitario) > 0)
       => row_db.total_linea = Round2(Mul(row_db.cantidad, row_db.precio_unitario))
    /\ (/\ row_bot # NoRow
        /\ limpiar_numero(BotPrepare(item).total_linea) = 0
        /\ limpiar_numero(BotPrepare(item).precio_unitario) > 0)
       => row_bot.total_linea = Round2(Mul(row_bot.cantidad, row_bot.precio_unitario))

\* The item of the normalisation example:
\* {producto: "Leche", precio_unitario: "1,20€", cantidad: null, total_linea: 0}.
Leche ==
    [cantidad |-> Null,
     precio_unitario |-> Str(<<"1", ",", "2", "0", "€">>),
     total_linea |-> Num(0)]

\* C9: the Persistence Stage persists the item Leche with quantity 1,
\* unit_price 1.20 and line_total 1.20.
C9_LecheExample ==
    (item = Leche /\ row_db # NoRow) =>
        row_db = [cantidad |-> 1 * Unit, precio_unitario |-> 12000,
                  total_linea |-> 12000]

-----------------------------------------------------------------------------
(* Claims about persistence *)

\* The receipt identity of the datastore invariant: store compared without
\* regard to letter case, receipt number, date.
SameReceipt(row, tienda, numero_ticket, fecha) ==
    /\ Lower(row.tienda) = Lower(tienda)
    /\ row.numero_ticket = numero_ticket
    /\ row.fecha = fecha

\* The last save was made by the Persistence Stage and reached the datastore.
WorkerDbSaved == last_save.stage = "worker_db" /\ last_save.fault = "none"

\* The task of the last save carries a receipt number that a receipt
\* persisted before it carries too, with the same store and date.
LastSaveIsDuplicate ==
    /\ Truthy(last_save.data.numero_ticket)
    /\ \E i \in 1..last_save.nTickets :
          SameReceipt(tickets[i], last_save.data.tienda,
                      last_save.data.numero_ticket, last_save.fecha)

\* C4: for every persistence task whose (store_name, receipt_number, date)
\* matches an already-persisted receipt, the Persistence Stage writes no
\* receipt row and no line-item row, and emits a response with status
\* warning for that task.
C4_DuplicateWritesNothing ==
    (WorkerDbSaved /\ LastSaveIsDuplicate) =>
        /\ Len(tickets) = last_save.nTickets
        /\ Len(compras) = last_save.nCompras
        /\ Len(bot_responses) = last_save.nResponses + 1
        /\ Last(bot_responses).status = "warning"
        /\ Last(bot_responses).task_id = last_save.task_id

\* C4 witness: the Persistence Stage has met a task whose store differs only
\* in letter case from that of a persisted receipt with its number and date.
C4_Witness ==
    /\ WorkerDbSaved /\ LastSaveIsDuplicate
    /\ \E i \in 1..last_save.nTickets :
          /\ SameReceipt(tickets[i], last_save.data.tienda,
                         last_save.data.numero_ticket, last_save.fecha)
          /\ tickets[i].tienda # last_save.data.tienda
    /\ bot_responses # <<>> /\ Last(bot_responses).status = "warning"

\* C5: no two persisted receipts with a receipt number share the same
\* (store without regard to letter case, receipt number, date), whichever of
\* worker_db.save_ticket_to_db and bot.save_ticket_to_db wrote them.
C5_ReceiptsUnique ==
    \A i, j \in DOMAIN tickets :
        (i < j /\ Truthy(tickets[i].numero_ticket)) =>
            ~SameReceipt(tickets[i], tickets[j].tienda,
                         tickets[j].numero_ticket, tickets[j].fecha)

\* C6: a persistence task with no receipt number is always inserted: the
\* receipt count grows by one, with one row per line item, whatever is
\* already persisted.
C6_NoNumberAlwaysInserted ==
    (WorkerDbSaved /\ ~Truthy(last_save.data.numero_ticket)) =>
        /\ Len(tickets) = last_save.nTickets + 1
        /\ Last(tickets).tienda = last_save.data.tienda
        /\ Last(tickets).fecha = last_save.fecha
        /\ Len(compras) = last_save.nCompras + Len(last_save.data.productos)
        /\ Len(bot_responses) = last_save.nResponses + 1
        /\ Last(bot_responses).status = "ok-todo"

\* C6 witness: two tasks with the same store, date and items and no receipt
\* number have been processed, and each inserted a receipt.
C6_Witness ==
    /\ WorkerDbSaved
    /\ db_last_id = 2
    /\ db_tasks[1].resultado = db_tasks[2].resultado
    /\ ~Truthy(db_tasks[1].resultado.numero_ticket)
    /\ Len(tickets) = 2
    /\ tickets[1] = tickets[2]

LineTotals(ticket_id) ==
    SumSeq([i \in DOMAIN compras |->
               IF compras[i].ticket = ticket_id THEN compras[i].total_linea ELSE 0])

\* C8: the persisted receipt total equals the sum of the line_total values
\* persisted for the receipt's line items.
C8_TotalIsSumOfLines ==
    \A k \in DOMAIN tickets : tickets[k].total_ticket = LineTotals(k)

-----------------------------------------------------------------------------
(* Claims about extraction *)

\* The LLM gave nothing usable: its answer is unparseable, empty or absent.
NoUsableAnswer(answer) ==
    \/ Unparseable(answer)
    \/ JsonLoads(Slice(answer.text, Find(answer.text, "{"),
                       RFind(answer.text, "}"))).members = <<>>

\* The records worker_ia has finished with, whose LLM answer was unusable and
\* whose handling met no broker or file failure.
FailedExtractions ==
    { r \in IaIds : /\ ia_log[r].handled
                    /\ ia_log[r].called
                    /\ ~ia_log[r].faulted
                    /\ NoUsableAnswer(ia_log[r].answer) }

\* C10: for every extraction-stream task whose LLM output is unparseable,
\* empty or absent, the Extraction Stage appends no db_tasks record for the
\* task, emits a response with status "error" for the task, and removes the
\* record from ia_tasks.
C10_ExtractionFailureReported ==
    \A r \in FailedExtractions :
        /\ \A i \in DOMAIN db_tasks : db_tasks[i].task_id # r
        /\ \E i \in DOMAIN bot_responses :
              /\ bot_responses[i].task_id = r
              /\ bot_responses[i].status = "error"
        /\ \A i \in DOMAIN ia_tasks : ia_tasks[i].id # r

-----------------------------------------------------------------------------
(* Claims about acknowledgment and reporting *)

\* The db_tasks records worker_db has processed: those up to its cursor.
ProcessedDbTasks == 1..db_last_id

\* C11: every record the Persistence Stage has processed is removed from the
\* db_tasks stream, whether processing succeeded, found a duplicate or failed.
C11_ProcessedRecordRemoved ==
    \A msg_id \in ProcessedDbTasks : msg_id \notin DOMAIN db_tasks

TerminalStatuses == {"ok-todo", "warning", "error"}

\* C13: no processed persistence task ends without a terminal response
\* (ok-todo, warning or error) carrying its task_id and user_id, and a task
\* whose save raised before commit has a response with status error.
C13_PersistenceFailureReported ==
    \A msg_id \in ProcessedDbTasks :
        /\ \E i \in DOMAIN bot_responses :
              /\ bot_responses[i].task_id = db_tasks[msg_id].task_id
              /\ bot_responses[i].user_id = db_tasks[msg_id].user_id
              /\ bot_responses[i].status \in TerminalStatuses
        /\ (last_save.task_id = db_tasks[msg_id].task_id /\ last_save.fault # "none") =>
              \E i \in DOMAIN bot_responses :
                 /\ bot_responses[i].task_id = db_tasks[msg_id].task_id
                 /\ bot_responses[i].status = "error"

StatusDomain == {"ok-todo", "ok", "warning", "error"}

\* C14: every record a stage appends to bot_responses has a status that is
\* one of ok-todo, ok, warning, error.
C14_ResponseStatusDomain ==
    \A i \in DOMAIN bot_responses : bot_responses[i].status \in StatusDomain

-----------------------------------------------------------------------------
(* Claims about extraction forwarding *)

\* The records worker_ia has finished with after calling the LLM, whose
\* handling met no broker or file failure.
Extractions ==
    { r \in IaIds : ia_log[r].handled /\ ia_log[r].called /\ ~ia_log[r].faulted }

Forwarded(r) == \E i \in DOMAIN db_tasks : db_tasks[i].task_id = ia_log[r].msg.task_id

\* C16: the Extraction Stage appends a record to db_tasks for an ia_tasks
\* record if and only if the LLM output from its first "{" to its last "}"
\* parses as an object (an empty object included); the forwarded record
\* carries the task_id and user_id of the consumed record, a status ok
\* response is emitted and the source record is removed.
C16_ForwardedIffParsed ==
    \A r \in Extractions :
        /\ Forwarded(r) <=> ~Unparseable(ia_log[r].answer)
        /\ Forwarded(r) =>
              /\ \A i \in DOMAIN db_tasks :
                    db_tasks[i].task_id = ia_log[r].msg.task_id =>
                       db_tasks[i].user_id = ia_log[r].msg.user_id
              /\ \E i \in DOMAIN bot_responses :
                    /\ bot_responses[i].task_id = ia_log[r].msg.task_id
                    /\ bot_responses[i].status = "ok"
              /\ \A i \in DOMAIN ia_tasks : ia_tasks[i].id # r

\* The records without OCR text that worker_ia has finished with, whose
\* handling met no broker failure.
DroppedNoText ==
    { r \in IaIds : /\ ia_log[r].handled
                    /\ ia_log[r].msg.ocr_text = ""
                    /\ ~ia_log[r].faulted }

\* C17: an extraction-stream task with no OCR text is dropped silently: the
\* record is removed from ia_tasks, the LLM is not called, nothing is appended
\* to db_tasks and nothing is appended to bot_responses.
C17_NoTextDroppedSilently ==
    \A r \in DroppedNoText :
        /\ \A i \in DOMAIN ia_tasks : ia_tasks[i].id # r
        /\ ~ia_log[r].called
        /\ \A i \in DOMAIN db_tasks : db_tasks[i].task_id # ia_log[r].msg.task_id
        /\ \A i \in DOMAIN bot_responses :
              bot_responses[i].task_id # ia_log[r].msg.task_id

\* A record without OCR text was dropped while another record was reported.
C17_Witness ==
    /\ DroppedNoText # {}
    /\ bot_responses # <<>>

-----------------------------------------------------------------------------
(* Claims about the expiry of a timer on an empty sequence *)

\* The timer task found the session's list empty and is in
\* reply_text("No se detectaron fotos") of process_ticket_photos, line 93.
RepliesNoPhotos(t) == timers[t].pc = "reply_no_photos"

\* C19: when a session's debounce timer expires while the session's photo
\* sequence is empty, nothing observable happens: no message is sent to the
\* user, so no timer task is ever sending the "no photos" reply.
C19_EmptyExpiryUnobservable ==
    \A t \in PhotoIds : ~RepliesNoPhotos(t)

-----------------------------------------------------------------------------
(* Claims about the OCR stage *)

\* C12: a poison record cannot block the stream: when the OCR call or the
\* file read of a record throws, the worker moves on to the next record and
\* the failing record is not redelivered.
C12_FailedRecordNotRedelivered ==
    \A r \in OcrIds : ocr_log[r].failed => ~ocr_log[r].redelivered

\* C15: no read loop ends after startup: a broker failure on the blocking
\* read and a malformed record (a user_id that is no number, a photo list
\* that does not parse) are caught inside the stage and the worker keeps
\* reading.
C15_ReadLoopNeverEnds == ocr_pc # "crashed"

\* The records worker_ocr has finished with (every photo read, the record
\* deleted), whose handling met no broker failure.
OcrSucceeded ==
    { r \in OcrIds : ocr_log[r].done /\ ~ocr_log[r].faulted }

\* The texts of the photos, each followed by a line break.
LinesOf(paths) == [i \in DOMAIN paths |-> DocText(paths[i]) \o <<"\n">>]

\* Where line i starts in the concatenation of lines, less one.
Offset(lines, i) == SumSeq([k \in 1..(i - 1) |-> Len(lines[k])])

\* text is the lines one after the other, in order.
IsConcatenation(text, lines) ==
    /\ Len(text) = Offset(lines, Len(lines) + 1)
    /\ \A i \in DOMAIN lines : \A j \in DOMAIN lines[i] :
          text[Offset(lines, i) + j] = lines[i][j]

\* C18: for every ocr_tasks record whose photos are all read without error,
\* the OCR Stage appends exactly one record to ia_tasks with the record's
\* task_id and user_id and the photos' texts in submission order, each
\* followed by a line break; it emits one status ok response, deletes the
\* photo files and removes the record from ocr_tasks.
C18_OcrSuccess ==
    \A r \in OcrSucceeded :
        LET msg == ocr_log[r].msg
            paths == JsonLoadsList(msg.photo_paths).list
            sent == { i \in DOMAIN ia_tasks : ia_tasks[i].task_id = msg.task_id }
            told == { i \in DOMAIN bot_responses :
                         bot_responses[i].task_id = msg.task_id }
        IN /\ Cardinality(sent) = 1
           /\ \A i \in sent :
                 /\ ia_tasks[i].user_id = ParseInt(msg.user_id).v
                 /\ IsConcatenation(ia_tasks[i].ocr_text, LinesOf(paths))
           /\ Cardinality(told) = 1
           /\ \A i \in told : bot_responses[i].status = "ok"
           /\ Range(paths) \cap photo_files = {}
           /\ \A i \in DOMAIN ocr_tasks : ocr_tasks[i].id # r

\* A batch of three photos went through the OCR stage.
C18_Witness ==
    \E r \in OcrSucceeded : Len(JsonLoadsList(ocr_log[r].msg.photo_paths).list) = 3

-----------------------------------------------------------------------------
(* Claims about malformed line items *)

\* productos of the task is no list and cannot be made one: it is no string,
\* or a string that does not parse to a list.
Irrecoverable(data) ==
    /\ ~IsList(data)
    /\ \/ data.productos_json.type # "str"
       \/ ~JsonValue(data.productos_json.s).ok
       \/ JsonValue(data.productos_json.s).kind # "list"

\* C20: when the line items of a persistence task are no sequence and cannot
\* be recovered into one (a string that is no JSON, or that parses to a scalar
\* or an object), the Persistence Stage goes on with zero line items: the
\* receipt row is inserted with total 0 and a response with status ok-todo and
\* item count 0 is emitted.
C20_MalformedItemsAreZeroItems ==
    (WorkerDbSaved /\ Irrecoverable(last_save.data) /\ ~LastSaveIsDuplicate) =>
        /\ Len(tickets) = last_save.nTickets + 1
        /\ Last(tickets).total_ticket = 0
        /\ Len(compras) = last_save.nCompras
        /\ Len(bot_responses) = last_save.nResponses + 1
        /\ Last(bot_responses).status = "ok-todo"
        /\ Last(bot_responses).task_id = last_save.task_id
        /\ Last(bot_responses).total = 0
        /\ Last(bot_responses).productos = 0

-----------------------------------------------------------------------------
(* Claims about failures partway through the extraction *)

ResponsesFor(task_id) ==
    { i \in DOMAIN bot_responses : bot_responses[i].task_id = task_id }

DbTasksFor(task_id) ==
    { i \in DOMAIN db_tasks : db_tasks[i].task_id = task_id }

\* C23: for every ia_tasks record, even when the audit-file write or a broker
\* append fails partway through, the Extraction Stage emits at most one
\* response and appends at most one db_tasks record for it.
C23_AtMostOncePerRecord ==
    \A r \in IaIds :
        /\ Cardinality(ResponsesFor(r)) <= 1
        /\ Cardinality(DbTasksFor(r)) <= 1

\* The records with OCR text that worker_ia has finished with, whatever their
\* handling met, and that are no longer in ia_tasks.
RemovedWithText ==
    { r \in IaIds : /\ ia_log[r].handled
                    /\ ia_log[r].msg.ocr_text # ""
                    /\ \A i \in DOMAIN ia_tasks : ia_tasks[i].id # r }

\* C24: no record is lost silently on hand-off: a record with OCR text that
\* the Extraction Stage has removed from ia_tasks has a successor record in
\* db_tasks or a response in bot_responses, also after a failed append.
C24_NoSilentLoss ==
    \A r \in RemovedWithText :
        ResponsesFor(ia_log[r].msg.task_id) # {} \/ DbTasksFor(ia_log[r].msg.task_id) # {}

-----------------------------------------------------------------------------
(* Claims about the sessions' timers *)

LiveTimers(s) == { t \in PhotoIds : Live(t) /\ timers[t].session = s }

\* Photo p was received in session s: its timer belongs to s, or handle_photo
\* is still at work on it for s and has not created its timer yet.
ReceivedIn(p, s) ==
    \/ timers[p].session = s
    \/ timers[p].pc = "none" /\ handler.session = s

\* C27: in every reachable state each session has at most one live
\* (uncancelled, unfinished) debounce timer task, and the timers and photo
\* sequences of different sessions do not affect one another: a session's
\* sequence, its timer handle, its timers' view of the sequence and its
\* submissions hold only what was received in that session.
C27_SingleTimerPerSession ==
    /\ \A s \in Sessions :
          /\ Cardinality(LiveTimers(s)) <= 1
          /\ \A p \in Range(ticket_photos[s]) : ReceivedIn(p, s)
          /\ photo_timer[s] # 0 => timers[photo_timer[s]].session = s
    /\ \A t \in PhotoIds : \A p \in Range(timers[t].photos) :
          ReceivedIn(p, timers[t].session)
    /\ \A i \in DOMAIN submissions : \A p \in Range(submissions[i].photos) :
          ReceivedIn(p, submissions[i].session)

\* Both sessions have a live timer, and one of them had a timer cancelled by
\* a later photo.
C27_Witness ==
    /\ \A s \in Sessions : LiveTimers(s) # {}
    /\ \E t \in PhotoIds : timers[t].pc = "cancelled"

-----------------------------------------------------------------------------
(* Claims about failing line items and restarts of the Persistence Stage *)

\* The last save was made by the Persistence Stage, one of its line items
\* failed, and the task is no duplicate.
ItemFailed ==
    /\ last_save.stage = "worker_db"
    /\ last_save.fault \in {"item_raises", "item_sql_error"}
    /\ last_save.data.productos # <<>>
    /\ ~LastSaveIsDuplicate

\* C21: when the insertion of one line item fails, the remaining line items
\* are still inserted, the receipt row is still committed and a response with
\* status ok-todo is emitted.
C21_ItemFailureIsolated ==
    ItemFailed =>
        /\ Len(tickets) = last_save.nTickets + 1
        /\ Len(compras) = last_save.nCompras + Len(last_save.data.productos) - 1
        /\ Len(bot_responses) = last_save.nResponses + 1
        /\ Last(bot_responses).status = "ok-todo"

\* C25: after worker_db restarts with its cursor at the stream origin, no
\* record it had processed is processed again: no db_tasks record gets a
\* second response, and none a second receipt row.
C25_RestartSafe ==
    /\ Len(bot_responses) <= Len(db_tasks)
    /\ Len(tickets) <= Len(db_tasks)

-----------------------------------------------------------------------------
(* Claims about the order of consumption *)

\* worker_ia takes a record in hand in this step.
IaTakes == ia_msg' # NoMsg /\ ia_msg' # ia_msg

\* One step of the stages, seen from their cursors.
InOrderStep ==
    /\ ia_last_id' >= ia_last_id
    /\ db_last_id' >= db_last_id
    /\ IaTakes =>
          /\ ia_msg = NoMsg
          /\ \A q \in 1..(ia_msg'.id - 1) : ia_log[q].handled
          /\ \A i \in DOMAIN ia_tasks : ia_tasks[i].id >= ia_msg'.id
    /\ ia_last_id' # ia_last_id => ia_last_id' = ia_msg.id
    /\ db_last_id' # db_last_id =>
          /\ db_last_id' = db_last_id + 1
          /\ db_last_id' <= Len(db_tasks)

\* C26: within one process lifetime worker_db and worker_ia take the records
\* of their stream one at a time and in the order of their ids: the cursor
\* last_id never decreases, a record is taken in hand only when the handling
\* of every record appended before it has ended, and worker_db always moves
\* to the record next to the one it handled last.
C26_InOrderOneAtATime == [][InOrderStep]_vars

\* worker_ia has the second record in hand after it handled the first.
C26_Witness ==
    /\ ia_msg.id = 2
    /\ ia_log[1].handled
    /\ ia_log[1].called

-----------------------------------------------------------------------------
(* Claims about the records on the stream *)

\* C22: what worker_db obtains by reading and parsing a db_tasks record is,
\* field for field, the structured result worker_ia serialized into it, and
\* the task_id and user_id it reads are the values written.
C22_StreamRoundTrip ==
    \A i \in DOMAIN wire_received :
        /\ wire_received[i].parsed
        /\ wire_received[i].resultado = wire_sent[i].resultado
        /\ wire_received[i].task_id = wire_sent[i].task_id
        /\ wire_received[i].user_id = wire_sent[i].user_id

\* worker_db has read a record whose line items hold a number with decimals
\* and strings with a quote, a backslash and a character outside ASCII.
C22_Witness ==
    \E i \in DOMAIN wire_received :
        /\ wire_sent[i].resultado.productos # <<>>
        /\ wire_sent[i].resultado.productos[1] = ItemQuoted
        /\ wire_stream[i].resultado.productos[1].cantidad = <<"1", ".", "2", "3", "4", "5">>
        /\ wire_received[i].resultado.productos[1].cantidad = Num(12345)

=============================================================================
